---- MODULE Spec2Model ----
(***************************************************************************)
(* Model of scripts/space_operations.py: one invocation of the command     *)
(* line front end (main), the token resolution (get_token), and the six    *)
(* client operations, each split at its single blocking remote API call.   *)
(***************************************************************************)
EXTENDS Integers, Sequences, FiniteSets, TLC

VARIABLES argv, env, pc, token, op, dispatched, calls, outcome, ret, raised,
          stdout, stderr, exitCode

vars == <<argv, env, pc, token, op, dispatched, calls, outcome, ret, raised,
          stdout, stderr, exitCode>>

(***************************************************************************)
(* Bounds and program constants.                                           *)
(***************************************************************************)
\* longest listing the remote produces in the model
MaxEntries == 2
\* default of --limit and of list_spaces(limit=...)
DefaultLimit == 20
\* the limit list_user_spaces passes
UserLimit == 100

(***************************************************************************)
(* Python values: None, str, bool, int, datetime, objects with attributes, *)
(* dicts and lists, each tagged with its type.                             *)
(***************************************************************************)
None == [t |-> "none"]
Str(s) == [t |-> "str", v |-> s]
Bool(b) == [t |-> "bool", v |-> b]
PyInt(n) == [t |-> "int", v |-> n]
DateTime(s) == [t |-> "datetime", v |-> s]
Obj(cls, attrs) == [t |-> "obj", cls |-> cls, attrs |-> attrs]
Dict(d) == [t |-> "dict", v |-> d]
List(s) == [t |-> "list", v |-> s]

\* Python truthiness (`if x`, `not x`, `x or y`)
Truthy(x) ==
    CASE x.t = "none" -> FALSE
      [] x.t = "str" -> x.v # ""
      [] x.t = "bool" -> x.v
      [] x.t = "int" -> x.v # 0
      [] x.t = "dict" -> DOMAIN x.v # {}
      [] x.t = "list" -> Len(x.v) # 0
      [] OTHER -> TRUE

\* hasattr(x, a) and x.a
HasAttr(x, a) == x.t = "obj" /\ a \in DOMAIN x.attrs
GetAttr(x, a) == x.attrs[a]

\* str(x)
PyStr(x) ==
    CASE x.t = "none" -> Str("None")
      [] x.t = "str" -> x
      [] x.t = "bool" -> Str(IF x.v THEN "True" ELSE "False")
      [] x.t = "int" -> Str(ToString(x.v))
      [] x.t = "datetime" -> Str(x.v)
      [] OTHER -> Str("<" \o x.cls \o ">")

\* isinstance(e, cls) for the exception classes that occur
IsInstance(e, cls) ==
    \/ cls = e
    \/ cls = "Exception" /\ e \in {"HfHubHTTPError", "ConnectionError", "AttributeError"}

\* the first except clause of a try statement that catches e, 0 when none does
RECURSIVE FirstHandler(_, _, _)
FirstHandler(e, handlers, i) ==
    IF i > Len(handlers) THEN 0
    ELSE IF IsInstance(e, handlers[i]) THEN i
    ELSE FirstHandler(e, handlers, i + 1)

\* a line printed to a stream
Line(text, arg) == [text |-> text, arg |-> arg]

\* x or y
PyOr(x, y) == IF Truthy(x) THEN x ELSE y

Texts(s) == {s[i].text : i \in 1..Len(s)}

\* json.dumps(x, indent=2, ensure_ascii=False), as the tree of JSON tokens
RECURSIVE JsonDumps(_)
JsonDumps(x) ==
    CASE x.t = "none" -> "null"
      [] x.t = "str" -> "\"" \o x.v \o "\""
      [] x.t = "bool" -> IF x.v THEN "true" ELSE "false"
      [] x.t = "int" -> ToString(x.v)
      [] x.t = "dict" -> [k \in DOMAIN x.v |-> JsonDumps(x.v[k])]
      [] x.t = "list" -> [i \in 1..Len(x.v) |-> JsonDumps(x.v[i])]

(***************************************************************************)
(* The process's inputs: the command line and the environment.             *)
(***************************************************************************)
Commands == {"list", "info", "restart", "pause", "runtime", "user"}

\* --token: not given, given empty, given non-empty
TokenFlags == {None, Str(""), Str("cli_tok")}

Args(tok, command, author, search, limit, space_id, username) ==
    [token |-> tok, command |-> command, author |-> author, search |-> search,
     limit |-> limit, space_id |-> space_id, username |-> username]

\* the namespaces parse_args can produce, and "bogus" for a command line it rejects
Argvs ==
    UNION {
      {Args(tok, c, None, None, None, None, None) : c \in {None, Str("bogus")}}
      \cup {Args(tok, Str("list"), a, s, PyInt(l), None, None) :
              a \in {None, Str("alice")}, s \in {None, Str("demo")},
              l \in {5, DefaultLimit, UserLimit}}
      \cup {Args(tok, Str(c), None, None, None, Str(id), None) :
              c \in {"info", "restart", "pause", "runtime"},
              id \in {"owner/space", "other/app"}}
      \cup {Args(tok, Str("user"), None, None, None, None, Str(u)) :
              u \in {"alice", "bob"}}
      : tok \in TokenFlags}

\* os.environ: each variable unset (get returns None), empty or non-empty
Envs ==
    {[HF_TOKEN |-> h, HUGGINGFACE_TOKEN |-> g] :
        h \in {None, Str(""), Str("hf_tok")},
        g \in {None, Str(""), Str("hug_tok")}}

(***************************************************************************)
(* The remote collaborator: what an API handle method can hand back.       *)
(***************************************************************************)
\* errors a remote call raises: HTTP-level, or any other
RemoteErrors == {"HfHubHTTPError", "ConnectionError"}

AttrValue(a) ==
    CASE a = "id" -> Str("owner/space")
      [] a = "author" -> Str("owner")
      [] a = "sha" -> Str("abc123")
      [] a = "lastModified" -> DateTime("2024-05-01 12:00:00")
      [] a = "private" -> Bool(TRUE)
      [] a = "likes" -> PyInt(7)
      [] a = "sdk" -> Str("gradio")
      [] a = "sdk_version" -> Str("4.0")
      [] a = "stage" -> Str("RUNNING")
      [] a = "hardware" -> Str("cpu-basic")
      [] a = "requested_hardware" -> Str("t4-small")
      [] a = "sleep_time" -> PyInt(3600)

SpaceRequiredAttrs == {"id", "author", "sha"}
SpaceOptionalAttrs == {"lastModified", "private", "likes", "sdk", "sdk_version", "runtime"}
RuntimeOptionalAttrs == {"hardware", "requested_hardware", "sleep_time"}

\* an object with the attributes `present`; those in `nulls` are None
MkObj(cls, present, nulls, sub) ==
    Obj(cls, [a \in present |->
                IF a \in nulls THEN None
                ELSE IF a = "runtime" THEN sub
                ELSE AttrValue(a)])

\* the objects space.runtime can be
SpaceRuntimeAttrs ==
    {MkObj("SpaceRuntime", p, {}, None) : p \in SUBSET {"stage", "hardware"}}

\* the objects api.space_info can return
SpaceInfos ==
    {MkObj("SpaceInfo", req \cup p, n, rt) :
        req \in {SpaceRequiredAttrs, SpaceRequiredAttrs \ {"sha"}},
        p \in SUBSET SpaceOptionalAttrs,
        n \in {{}, SpaceOptionalAttrs},
        rt \in SpaceRuntimeAttrs}

\* the objects api.list_spaces yields: complete, all optional attributes None,
\* all optional attributes absent, a required attribute absent
ListedSpaces ==
    {MkObj("SpaceInfo", SpaceRequiredAttrs \cup SpaceOptionalAttrs, {},
           MkObj("SpaceRuntime", {"stage", "hardware"}, {}, None)),
     MkObj("SpaceInfo", SpaceRequiredAttrs \cup SpaceOptionalAttrs, SpaceOptionalAttrs, None),
     MkObj("SpaceInfo", SpaceRequiredAttrs, {}, None),
     MkObj("SpaceInfo", SpaceRequiredAttrs \ {"id"}, {}, None)}

\* the objects api.get_space_runtime can return
SpaceRuntimes ==
    {MkObj("SpaceRuntime", req \cup p, n, None) :
        req \in {{"stage"}, {}},
        p \in SUBSET RuntimeOptionalAttrs,
        n \in {{}, RuntimeOptionalAttrs}}

SeqsUpTo(S, n) == UNION {[1..k -> S] : k \in 0..n}

\* the outcome of one remote call: exc is the error the call raises ("none":
\* it returns value); a listing is an iterator that yields `value` and then,
\* when iter_exc is an error, raises it
Outcome(exc, value, iter_exc) == [exc |-> exc, value |-> value, iter_exc |-> iter_exc]
Pending == [exc |-> "pending"]

Failures == {Outcome(e, None, "none") : e \in RemoteErrors}

ListOutcomes ==
    Failures \cup
    {Outcome("none", List(s), ie) :
        s \in SeqsUpTo(ListedSpaces, MaxEntries), ie \in {"none"} \cup RemoteErrors}

InfoOutcomes == Failures \cup {Outcome("none", x, "none") : x \in SpaceInfos}
RuntimeOutcomes == Failures \cup {Outcome("none", x, "none") : x \in SpaceRuntimes}
ActionOutcomes == Failures \cup {Outcome("none", None, "none")}

\* a call of an API handle method: the handle's token, the method, its arguments
Request(tok, method, args) == [token |-> tok, method |-> method, args |-> args]

(***************************************************************************)
(* get_token and the six client operations.  An operation is a pair: what  *)
(* it does up to its remote call (X_call), and what it does with the       *)
(* call's outcome (X_return).                                              *)
(***************************************************************************)
\* what a function hands back: its return value, the lines it printed, and
\* the exception that left it ("none": it returned)
Result(r, out, err) == [raised |-> "none", ret |-> r, out |-> out, err |-> err]
Propagate(e, out) == [raised |-> e, ret |-> None, out |-> out, err |-> <<>>]

\* the body of a try statement: the exception it raised ("none": it ran to its
\* return statement), the value returned, the lines printed before either
Body(exc, r, out) == [exc |-> exc, ret |-> r, out |-> out]

\* an except clause: the class caught, the text printed to stderr, the value returned
Handler(cls, text, r) == [cls |-> cls, text |-> text, ret |-> r]

\* try: body  except h1: ...  except h2: ...
TryExcept(body, handlers) ==
    IF body.exc = "none" THEN Result(body.ret, body.out, <<>>)
    ELSE LET i == FirstHandler(body.exc, [k \in 1..Len(handlers) |-> handlers[k].cls], 1)
         IN  IF i = 0 THEN Propagate(body.exc, body.out)
             ELSE Result(handlers[i].ret, body.out, <<Line(handlers[i].text, body.exc)>>)

\* an operation up to its remote call: the call it issues, or the result it
\* returns without one
Issue(request) == [requests |-> <<request>>, early |-> FALSE, result |-> Result(None, <<>>, <<>>)]
ReturnEarly(result) == [requests |-> <<>>, early |-> TRUE, result |-> result]

\* x.a for each a of attrs raises AttributeError
AttributeErrorIn(x, attrs) == \E a \in attrs : ~HasAttr(x, a)

NoTokenWarning ==
    <<Line("Warning: No HF_TOKEN or HUGGINGFACE_TOKEN found in environment.", ""),
      Line("Some operations may require authentication.", "")>>

get_token(environ) ==
    LET tok == PyOr(environ.HF_TOKEN, environ.HUGGINGFACE_TOKEN)
    IN  [value |-> tok, err |-> IF ~Truthy(tok) THEN NoTokenWarning ELSE <<>>]

\* faulty variant: the flag wins whenever it is given, empty or not
resolve_token_IfGiven(args, environ) ==
    IF args.token # None THEN [value |-> args.token, err |-> <<>>]
    ELSE get_token(environ)

\* token = args.token or get_token()
resolve_token(args, environ) ==
    IF Truthy(args.token) THEN [value |-> args.token, err |-> <<>>]
    ELSE get_token(environ)

\* ---- list_spaces
space_dict(space) ==
    Dict([id |-> GetAttr(space, "id"),
          author |-> GetAttr(space, "author"),
          sha |-> GetAttr(space, "sha"),
          last_modified |-> IF HasAttr(space, "lastModified")
                            THEN PyStr(GetAttr(space, "lastModified")) ELSE None,
          private |-> IF HasAttr(space, "private") THEN GetAttr(space, "private") ELSE Bool(FALSE),
          likes |-> IF HasAttr(space, "likes") THEN GetAttr(space, "likes") ELSE PyInt(0),
          sdk |-> IF HasAttr(space, "sdk") THEN GetAttr(space, "sdk") ELSE None])

list_spaces_call(author, search, limit, tok) ==
    Issue(Request(tok, "list_spaces",
                  [author |-> author, search |-> search, limit |-> limit, full |-> Bool(TRUE)]))

\* for space in spaces: results.append(space_dict)
RECURSIVE list_spaces_loop(_, _, _, _)
list_spaces_loop(spaces, iter_exc, i, results) ==
    IF i > Len(spaces)
    THEN IF iter_exc # "none" THEN Body(iter_exc, None, <<>>)
         ELSE Body("none", List(results), <<>>)
    ELSE IF AttributeErrorIn(spaces[i], SpaceRequiredAttrs)
         THEN Body("AttributeError", None, <<>>)
         ELSE list_spaces_loop(spaces, iter_exc, i + 1, Append(results, space_dict(spaces[i])))

\* faulty variant: only the HTTP error is caught
list_spaces_handlers_HttpOnly ==
    <<Handler("HfHubHTTPError", "Error listing spaces", List(<<>>))>>

list_spaces_handlers == <<Handler("Exception", "Error listing spaces", List(<<>>))>>

list_spaces_return(o) ==
    TryExcept(IF o.exc # "none" THEN Body(o.exc, None, <<>>)
              ELSE list_spaces_loop(o.value.v, o.iter_exc, 1, <<>>),
              list_spaces_handlers)

\* ---- get_space_info
\* faulty variant: str(getattr(space, "lastModified", None))
space_info_dict_StrOfDefault(space) ==
    Dict([id |-> GetAttr(space, "id"),
          author |-> GetAttr(space, "author"),
          sha |-> GetAttr(space, "sha"),
          last_modified |-> PyStr(IF HasAttr(space, "lastModified")
                                  THEN GetAttr(space, "lastModified") ELSE None),
          private |-> IF HasAttr(space, "private") THEN GetAttr(space, "private") ELSE Bool(FALSE),
          likes |-> IF HasAttr(space, "likes") THEN GetAttr(space, "likes") ELSE PyInt(0),
          sdk |-> IF HasAttr(space, "sdk") THEN GetAttr(space, "sdk") ELSE None,
          sdk_version |-> IF HasAttr(space, "sdk_version") THEN GetAttr(space, "sdk_version") ELSE None,
          runtime |-> IF HasAttr(space, "runtime") /\ HasAttr(GetAttr(space, "runtime"), "stage")
                      THEN GetAttr(GetAttr(space, "runtime"), "stage") ELSE None,
          hardware |-> IF HasAttr(space, "runtime") /\ HasAttr(GetAttr(space, "runtime"), "hardware")
                       THEN GetAttr(GetAttr(space, "runtime"), "hardware") ELSE None])

space_info_dict(space) ==
    Dict([id |-> GetAttr(space, "id"),
          author |-> GetAttr(space, "author"),
          sha |-> GetAttr(space, "sha"),
          last_modified |-> IF HasAttr(space, "lastModified")
                            THEN PyStr(GetAttr(space, "lastModified")) ELSE None,
          private |-> IF HasAttr(space, "private") THEN GetAttr(space, "private") ELSE Bool(FALSE),
          likes |-> IF HasAttr(space, "likes") THEN GetAttr(space, "likes") ELSE PyInt(0),
          sdk |-> IF HasAttr(space, "sdk") THEN GetAttr(space, "sdk") ELSE None,
          sdk_version |-> IF HasAttr(space, "sdk_version") THEN GetAttr(space, "sdk_version") ELSE None,
          runtime |-> IF HasAttr(space, "runtime") /\ HasAttr(GetAttr(space, "runtime"), "stage")
                      THEN GetAttr(GetAttr(space, "runtime"), "stage") ELSE None,
          hardware |-> IF HasAttr(space, "runtime") /\ HasAttr(GetAttr(space, "runtime"), "hardware")
                       THEN GetAttr(GetAttr(space, "runtime"), "hardware") ELSE None])

get_space_info_call(space_id, tok) ==
    Issue(Request(tok, "space_info", [repo_id |-> space_id]))

get_space_info_handlers ==
    <<Handler("HfHubHTTPError", "Error getting space info", None),
      Handler("Exception", "Unexpected error", None)>>

get_space_info_return(o) ==
    TryExcept(IF o.exc # "none" THEN Body(o.exc, None, <<>>)
              ELSE IF AttributeErrorIn(o.value, SpaceRequiredAttrs)
                   THEN Body("AttributeError", None, <<>>)
                   ELSE Body("none", space_info_dict(o.value), <<>>),
              get_space_info_handlers)

\* ---- restart_space
\* faulty variant: the token check left out
restart_space_call_NoCheck(space_id, tok) ==
    Issue(Request(tok, "restart_space", [repo_id |-> space_id]))

restart_space_call(space_id, tok) ==
    IF ~Truthy(tok)
    THEN ReturnEarly(Result(Bool(FALSE), <<>>,
                            <<Line("Error: Token is required to restart a space.", "")>>))
    ELSE Issue(Request(tok, "restart_space", [repo_id |-> space_id]))

restart_space_handlers ==
    <<Handler("HfHubHTTPError", "Error restarting space", Bool(FALSE)),
      Handler("Exception", "Unexpected error", Bool(FALSE))>>

\* faulty variant: the confirmation is printed before the call
restart_space_return_PrintFirst(space_id, o) ==
    TryExcept(Body(o.exc, Bool(TRUE), <<Line("Successfully restarted space", space_id)>>),
              restart_space_handlers)

restart_space_return(space_id, o) ==
    TryExcept(IF o.exc # "none" THEN Body(o.exc, None, <<>>)
              ELSE Body("none", Bool(TRUE), <<Line("Successfully restarted space", space_id)>>),
              restart_space_handlers)

\* ---- pause_space
\* faulty variant: the missing token is not reported
pause_space_call_Silent(space_id, tok) ==
    IF ~Truthy(tok)
    THEN ReturnEarly(Result(Bool(FALSE), <<>>, <<>>))
    ELSE Issue(Request(tok, "pause_space", [repo_id |-> space_id]))

pause_space_call(space_id, tok) ==
    IF ~Truthy(tok)
    THEN ReturnEarly(Result(Bool(FALSE), <<>>,
                            <<Line("Error: Token is required to pause a space.", "")>>))
    ELSE Issue(Request(tok, "pause_space", [repo_id |-> space_id]))

pause_space_handlers ==
    <<Handler("HfHubHTTPError", "Error pausing space", Bool(FALSE)),
      Handler("Exception", "Unexpected error", Bool(FALSE))>>

pause_space_return(space_id, o) ==
    TryExcept(IF o.exc # "none" THEN Body(o.exc, None, <<>>)
              ELSE Body("none", Bool(TRUE), <<Line("Successfully paused space", space_id)>>),
              pause_space_handlers)

\* ---- get_space_runtime
runtime_dict(runtime) ==
    Dict([stage |-> GetAttr(runtime, "stage"),
          hardware |-> IF HasAttr(runtime, "hardware") THEN GetAttr(runtime, "hardware") ELSE None,
          requested_hardware |-> IF HasAttr(runtime, "requested_hardware")
                                 THEN GetAttr(runtime, "requested_hardware") ELSE None,
          sleep_time |-> IF HasAttr(runtime, "sleep_time") THEN GetAttr(runtime, "sleep_time") ELSE None,
          raw_data |-> PyStr(runtime)])

\* faulty variant: the runtime is fetched twice
get_space_runtime_call_Twice(space_id, tok) ==
    [requests |-> <<Request(tok, "get_space_runtime", [repo_id |-> space_id]),
                    Request(tok, "get_space_runtime", [repo_id |-> space_id])>>,
     early |-> FALSE, result |-> Result(None, <<>>, <<>>)]

get_space_runtime_call(space_id, tok) ==
    Issue(Request(tok, "get_space_runtime", [repo_id |-> space_id]))

get_space_runtime_handlers ==
    <<Handler("HfHubHTTPError", "Error getting space runtime", None),
      Handler("Exception", "Unexpected error", None)>>

get_space_runtime_return(o) ==
    TryExcept(IF o.exc # "none" THEN Body(o.exc, None, <<>>)
              ELSE IF AttributeErrorIn(o.value, {"stage"})
                   THEN Body("AttributeError", None, <<>>)
                   ELSE Body("none", runtime_dict(o.value), <<>>),
              get_space_runtime_handlers)

\* ---- list_user_spaces: list_spaces(author=username, limit=100, token=token)
\* faulty variant: limit left at its default
list_user_spaces_call_DefaultLimit(username, tok) ==
    list_spaces_call(username, None, PyInt(DefaultLimit), tok)

list_user_spaces_call(username, tok) == list_spaces_call(username, None, PyInt(UserLimit), tok)
list_user_spaces_return(o) == list_spaces_return(o)

(***************************************************************************)
(* main: the state machine of one process invocation.                      *)
(*   start -> parsed -> resolved -> calling -> returned -> exited          *)
(***************************************************************************)
Unresolved == [t |-> "unresolved"]
NotReturned == [t |-> "unset"]

Init ==
    /\ argv \in Argvs
    /\ env \in Envs
    /\ pc = "start"
    /\ token = Unresolved
    /\ op = "none"
    /\ dispatched = 0
    /\ calls = <<>>
    /\ outcome = Pending
    /\ ret = NotReturned
    /\ raised = "none"
    /\ stdout = <<>>
    /\ stderr = <<>>
    /\ exitCode = <<>>

\* args = parser.parse_args() on a command line argparse rejects: usage and
\* the error on stderr, exit status 2
MainParseError ==
    /\ pc = "start"
    /\ argv.command = Str("bogus")
    /\ stderr' = stderr \o <<Line("usage", ""), Line("error: invalid choice", "")>>
    /\ exitCode' = <<2>>
    /\ pc' = "exited"
    /\ UNCHANGED <<argv, env, token, op, dispatched, calls, outcome, ret, raised, stdout>>

\* faulty variant: the usage is printed and main goes on
MainNoCommand_NoExit ==
    /\ pc = "start"
    /\ ~Truthy(argv.command)
    /\ stdout' = Append(stdout, Line("usage", ""))
    /\ pc' = "parsed"
    /\ UNCHANGED <<argv, env, token, op, dispatched, calls, outcome, ret, raised, stderr, exitCode>>

\* if not args.command: parser.print_help(); sys.exit(1)
MainNoCommand ==
    /\ pc = "start"
    /\ ~Truthy(argv.command)
    /\ stdout' = Append(stdout, Line("usage", ""))
    /\ exitCode' = <<1>>
    /\ pc' = "exited"
    /\ UNCHANGED <<argv, env, token, op, dispatched, calls, outcome, ret, raised, stderr>>

\* args.command is one of the six subcommands
MainParse ==
    /\ pc = "start"
    /\ Truthy(argv.command)
    /\ argv.command.v \in Commands
    /\ pc' = "parsed"
    /\ UNCHANGED <<argv, env, token, op, dispatched, calls, outcome, ret, raised,
                   stdout, stderr, exitCode>>

\* token = args.token or get_token()
MainResolveToken ==
    /\ pc = "parsed"
    /\ LET r == resolve_token(argv, env)
       IN  /\ token' = r.value
           /\ stderr' = stderr \o r.err
    /\ pc' = "resolved"
    /\ UNCHANGED <<argv, env, op, dispatched, calls, outcome, ret, raised, stdout, exitCode>>

\* main calls operation `name`, which runs up to its remote call
Dispatch(name, c) ==
    /\ op' = name
    /\ dispatched' = dispatched + 1
    /\ calls' = calls \o c.requests
    /\ IF c.early
       THEN /\ ret' = c.result.ret
            /\ raised' = c.result.raised
            /\ stdout' = stdout \o c.result.out
            /\ stderr' = stderr \o c.result.err
            /\ pc' = "returned"
       ELSE /\ pc' = "calling"
            /\ UNCHANGED <<ret, raised, stdout, stderr>>
    /\ UNCHANGED <<argv, env, token, outcome, exitCode>>

\* the remote call ends with outcome o and the operation runs to its end
Complete(o, r) ==
    /\ outcome' = o
    /\ ret' = r.ret
    /\ raised' = r.raised
    /\ stdout' = stdout \o r.out
    /\ stderr' = stderr \o r.err
    /\ pc' = "returned"
    /\ UNCHANGED <<argv, env, token, op, dispatched, calls, exitCode>>

MainList ==
    /\ pc = "resolved"
    /\ argv.command = Str("list")
    /\ Dispatch("list_spaces", list_spaces_call(argv.author, argv.search, argv.limit, token))

MainInfo ==
    /\ pc = "resolved"
    /\ argv.command = Str("info")
    /\ Dispatch("get_space_info", get_space_info_call(argv.space_id, token))

MainRestart ==
    /\ pc = "resolved"
    /\ argv.command = Str("restart")
    /\ Dispatch("restart_space", restart_space_call(argv.space_id, token))

MainPause ==
    /\ pc = "resolved"
    /\ argv.command = Str("pause")
    /\ Dispatch("pause_space", pause_space_call(argv.space_id, token))

MainRuntime ==
    /\ pc = "resolved"
    /\ argv.command = Str("runtime")
    /\ Dispatch("get_space_runtime", get_space_runtime_call(argv.space_id, token))

MainUser ==
    /\ pc = "resolved"
    /\ argv.command = Str("user")
    /\ Dispatch("list_user_spaces", list_user_spaces_call(argv.username, token))

ListSpacesReturns ==
    /\ pc = "calling"
    /\ op = "list_spaces"
    /\ \E o \in ListOutcomes : Complete(o, list_spaces_return(o))

GetSpaceInfoReturns ==
    /\ pc = "calling"
    /\ op = "get_space_info"
    /\ \E o \in InfoOutcomes : Complete(o, get_space_info_return(o))

RestartSpaceReturns ==
    /\ pc = "calling"
    /\ op = "restart_space"
    /\ \E o \in ActionOutcomes : Complete(o, restart_space_return(argv.space_id, o))

PauseSpaceReturns ==
    /\ pc = "calling"
    /\ op = "pause_space"
    /\ \E o \in ActionOutcomes : Complete(o, pause_space_return(argv.space_id, o))

GetSpaceRuntimeReturns ==
    /\ pc = "calling"
    /\ op = "get_space_runtime"
    /\ \E o \in RuntimeOutcomes : Complete(o, get_space_runtime_return(o))

ListUserSpacesReturns ==
    /\ pc = "calling"
    /\ op = "list_user_spaces"
    /\ \E o \in ListOutcomes : Complete(o, list_user_spaces_return(o))

\* faulty variant: list and user exit 1 on an empty result, like the other commands
main_finish_ListExits(command, r) ==
    IF Truthy(r)
    THEN [out |-> IF command \in {"restart", "pause"} THEN <<>>
                  ELSE <<Line("json", JsonDumps(r))>>,
          code |-> 0]
    ELSE [out |-> <<>>, code |-> 1]

\* what main does with the value its operation returned: the lines it prints
\* and the exit status (falling off the end of main is status 0)
main_finish(command, r) ==
    CASE command \in {"list", "user"} ->
            [out |-> <<Line("json", JsonDumps(r))>>, code |-> 0]
      [] command \in {"info", "runtime"} ->
            IF Truthy(r) THEN [out |-> <<Line("json", JsonDumps(r))>>, code |-> 0]
            ELSE [out |-> <<>>, code |-> 1]
      [] command \in {"restart", "pause"} ->
            [out |-> <<>>, code |-> IF Truthy(r) THEN 0 ELSE 1]

\* the rest of main after the operation; an exception that left the operation
\* leaves main too: traceback on stderr, exit status 1
MainExit ==
    /\ pc = "returned"
    /\ IF raised # "none"
       THEN /\ stderr' = Append(stderr, Line("Traceback", raised))
            /\ exitCode' = <<1>>
            /\ UNCHANGED stdout
       ELSE LET f == main_finish(argv.command.v, ret)
            IN  /\ stdout' = stdout \o f.out
                /\ exitCode' = <<f.code>>
                /\ UNCHANGED stderr
    /\ pc' = "exited"
    /\ UNCHANGED <<argv, env, token, op, dispatched, calls, outcome, ret, raised>>

Next ==
    \/ MainParseError
    \/ MainNoCommand
    \/ MainParse
    \/ MainResolveToken
    \/ MainList
    \/ MainInfo
    \/ MainRestart
    \/ MainPause
    \/ MainRuntime
    \/ MainUser
    \/ ListSpacesReturns
    \/ GetSpaceInfoReturns
    \/ RestartSpaceReturns
    \/ PauseSpaceReturns
    \/ GetSpaceRuntimeReturns
    \/ ListUserSpacesReturns
    \/ MainExit

Spec == Init /\ [][Next]_vars

\* the interpreter runs main to its end, and every remote call ends (with a
\* value or an error)
FairSpec == Spec /\ WF_vars(Next)

(***************************************************************************)
(* Properties.                                                             *)
(***************************************************************************)
Returned == pc \in {"returned", "exited"}
Recognised == Truthy(argv.command) /\ argv.command.v \in Commands
Mutating == {"restart_space", "pause_space"}

\* the remote call raised, at the call or while its result was iterated
RemoteFailed(o) ==
    \/ o.exc \in RemoteErrors
    \/ o.exc = "none" /\ o.iter_exc \in RemoteErrors

\* the value an operation returns when it fails
Degraded(name) ==
    CASE name \in {"list_spaces", "list_user_spaces"} -> List(<<>>)
      [] name \in {"get_space_info", "get_space_runtime"} -> None
      [] name \in Mutating -> Bool(FALSE)

\* the texts an operation prints to stderr when it fails
Diagnostics(name) ==
    CASE name \in {"list_spaces", "list_user_spaces"} -> {"Error listing spaces"}
      [] name = "get_space_info" -> {"Error getting space info", "Unexpected error"}
      [] name = "get_space_runtime" -> {"Error getting space runtime", "Unexpected error"}
      [] name = "restart_space" ->
            {"Error: Token is required to restart a space.", "Error restarting space",
             "Unexpected error"}
      [] name = "pause_space" ->
            {"Error: Token is required to pause a space.", "Error pausing space",
             "Unexpected error"}
      [] OTHER -> {}

Confirmations == {"Successfully restarted space", "Successfully paused space"}

\* C1: restart_space and pause_space with an empty or absent token return
\* False and no API handle method is ever called.
C1_NoTokenNoCall ==
    (op \in Mutating /\ ~Truthy(token)) =>
        /\ Returned
        /\ ret = Bool(FALSE)
        /\ raised = "none"
        /\ calls = <<>>
        /\ outcome = Pending

C1_Witness ==
    /\ op = "pause_space"
    /\ token = Str("")
    /\ pc = "exited"

\* C2: no exception leaves an operation, and after any remote failure (at the
\* call, or while the listing is iterated after some entries were produced) the
\* listings return an empty list, info and runtime return None, restart and
\* pause return False.
C2_NeverRaises ==
    /\ raised = "none"
    /\ (Returned /\ RemoteFailed(outcome)) => ret = Degraded(op)

C2_Witness ==
    /\ pc = "returned"
    /\ op = "list_user_spaces"
    /\ outcome.exc = "none"
    /\ outcome.iter_exc = "ConnectionError"
    /\ Len(outcome.value.v) = 2
    /\ ~AttributeErrorIn(outcome.value.v[1], SpaceRequiredAttrs)
    /\ ret = List(<<>>)

\* C3: info, restart, pause and runtime exit 1 exactly when the operation's
\* result is None or False and exit 0 otherwise; list and user always exit 0.
C3_ExitCode ==
    (pc = "exited" /\ Recognised) =>
        IF argv.command.v \in {"list", "user"}
        THEN exitCode = <<0>>
        ELSE /\ exitCode \in {<<0>>, <<1>>}
             /\ exitCode = <<1>> <=> (ret = None \/ ret = Bool(FALSE))

C3_Witness ==
    /\ pc = "exited"
    /\ argv.command = Str("list")
    /\ outcome.exc = "HfHubHTTPError"
    /\ ret = List(<<>>)
    /\ exitCode = <<0>>

\* C4: list_user_spaces(u, t) issues the request of, and returns what is
\* returned by, list_spaces(author=u, search=None, limit=100, token=t), for
\* every outcome of the remote call.
C4_UserIsList ==
    op = "list_user_spaces" =>
        /\ calls = <<Request(token, "list_spaces",
                             [author |-> argv.username, search |-> None,
                              limit |-> PyInt(100), full |-> Bool(TRUE)])>>
        /\ calls = list_spaces_call(argv.username, None, PyInt(100), token).requests
        /\ Returned =>
              /\ ret = list_spaces_return(outcome).ret
              /\ raised = list_spaces_return(outcome).raised
              /\ Texts(stderr) \ Texts(NoTokenWarning)
                    = Texts(list_spaces_return(outcome).err)

C4_Witness ==
    /\ op = "list_user_spaces"
    /\ pc = "returned"
    /\ argv.username = Str("bob")
    /\ ret.t = "list"
    /\ Len(ret.v) = 2

\* the attributes x has among attrs
Present(x, attrs) == DOMAIN x.attrs \cap attrs

NonEmpty(x) == x.t = "str" /\ x.v # ""
Resolved == token # Unresolved
Warned == Texts(NoTokenWarning) \subseteq Texts(stderr)

\* C6 as stated: the token is the --token value whenever the flag is given
\* (empty included), else HF_TOKEN if non-empty, else HUGGINGFACE_TOKEN if
\* non-empty, else absent; the warning is printed exactly in the last case.
C6_AsStated ==
    Resolved =>
        LET given == argv.token # None
            last == ~given /\ ~NonEmpty(env.HF_TOKEN) /\ ~NonEmpty(env.HUGGINGFACE_TOKEN)
        IN  /\ token = (IF given THEN argv.token
                        ELSE IF NonEmpty(env.HF_TOKEN) THEN env.HF_TOKEN
                        ELSE IF NonEmpty(env.HUGGINGFACE_TOKEN) THEN env.HUGGINGFACE_TOKEN
                        ELSE None)
            /\ Warned <=> last

\* C6 amended: the token handed to the operation (and to its API handle) is
\* the --token value if given and non-empty, else HF_TOKEN if non-empty, else
\* HUGGINGFACE_TOKEN if non-empty, else empty or absent (the empty string
\* when HUGGINGFACE_TOKEN is set to it, None otherwise); the warning is
\* printed exactly in that last case.
C6_TokenResolution ==
    Resolved =>
        LET last == ~NonEmpty(argv.token) /\ ~NonEmpty(env.HF_TOKEN)
                    /\ ~NonEmpty(env.HUGGINGFACE_TOKEN)
        IN  /\ token = (IF NonEmpty(argv.token) THEN argv.token
                        ELSE IF NonEmpty(env.HF_TOKEN) THEN env.HF_TOKEN
                        ELSE IF NonEmpty(env.HUGGINGFACE_TOKEN) THEN env.HUGGINGFACE_TOKEN
                        ELSE IF env.HUGGINGFACE_TOKEN = Str("") THEN Str("")
                        ELSE None)
            /\ last => ~Truthy(token)
            /\ Warned <=> last
            /\ \A i \in 1..Len(calls) : calls[i].token = token

C6_Witness ==
    /\ pc = "calling"
    /\ argv.token = Str("")
    /\ env.HF_TOKEN = Str("hf_tok")
    /\ token = Str("hf_tok")
    /\ calls[1].token = Str("hf_tok")

\* C7: with no subcommand the process prints the usage and exits 1, and
\* never resolves a token, dispatches an operation or makes a remote call.
C7_NoCommand ==
    ~Truthy(argv.command) =>
        /\ pc \in {"start", "exited"}
        /\ token = Unresolved
        /\ op = "none"
        /\ dispatched = 0
        /\ calls = <<>>
        /\ stderr = <<>>
        /\ pc = "exited" => (exitCode = <<1>> /\ Texts(stdout) = {"usage"})

C7_Witness ==
    /\ pc = "exited"
    /\ argv.command = None
    /\ argv.token = Str("cli_tok")
    /\ exitCode = <<1>>

\* C8: once an operation has returned, every failure (missing token of
\* restart/pause, a failed remote call) and every degraded None/False result
\* has its diagnostic on stderr; so info, restart, pause and runtime never
\* exit 1 without one.
C8_DiagnosticFirst ==
    (Returned /\ op # "none") =>
        LET diagnosed == Diagnostics(op) \cap Texts(stderr) # {}
        IN  /\ (op \in Mutating /\ ~Truthy(token)) => diagnosed
            /\ RemoteFailed(outcome) => diagnosed
            /\ (ret = None \/ ret = Bool(FALSE)) => diagnosed
            /\ (pc = "exited" /\ exitCode = <<1>>) => diagnosed

C8_Witness ==
    /\ pc = "returned"
    /\ op = "get_space_runtime"
    /\ outcome.exc = "ConnectionError"
    /\ ret = None
    /\ "Unexpected error" \in Texts(stderr)

\* the operation main dispatches for a subcommand
OperationOf(command) ==
    CASE command = "list" -> "list_spaces"
      [] command = "info" -> "get_space_info"
      [] command = "restart" -> "restart_space"
      [] command = "pause" -> "pause_space"
      [] command = "runtime" -> "get_space_runtime"
      [] command = "user" -> "list_user_spaces"

C9_OneCall ==
    /\ dispatched <= 1
    /\ Len(calls) <= 1
    /\ (pc \in {"calling", "returned", "exited"} /\ Recognised) =>
          /\ dispatched = 1
          /\ op = OperationOf(argv.command.v)
          /\ Len(calls) = IF op \in Mutating /\ ~Truthy(token) THEN 0 ELSE 1

\* C9: an invocation with a recognised subcommand dispatches exactly one
\* operation, which makes one remote call (none for restart/pause without a
\* token) and never a second; the process then terminates and takes no step
\* after it has exited.
C9_OneOperationThenExit ==
    /\ []C9_OneCall
    /\ [][pc # "exited"]_vars
    /\ <>(pc = "exited")

C9_Witness ==
    /\ pc = "exited"
    /\ op = "get_space_info"
    /\ RemoteFailed(outcome)
    /\ Len(calls) = 1
    /\ dispatched = 1

\* C10: restart_space and pause_space return True iff the token is non-empty
\* and the remote call ended without an error; the confirmation line is on
\* stdout iff the operation returned True, and never before the call ended.
C10_TrueIffCallSucceeded ==
    /\ ~Returned => Texts(stdout) \cap Confirmations = {}
    /\ (Returned /\ op \in Mutating) =>
          /\ ret \in {Bool(TRUE), Bool(FALSE)}
          /\ ret = Bool(TRUE) <=> (Truthy(token) /\ outcome.exc = "none")
          /\ (Texts(stdout) \cap Confirmations # {}) <=> ret = Bool(TRUE)
          /\ Len(SelectSeq(stdout, LAMBDA l : l.text \in Confirmations))
                = IF ret = Bool(TRUE) THEN 1 ELSE 0

C10_Witness ==
    /\ pc = "returned"
    /\ op = "restart_space"
    /\ ret = Bool(TRUE)
    /\ "Successfully restarted space" \in Texts(stdout)

====
